---- MODULE Spec2Model ----
(***************************************************************************)
(* A model of rest_framework_mongoengine/serializers.py: the serializer    *)
(* field factory (get_fields / build_field), the recursive persistence     *)
(* routine (recursive_save, create, update), the uniqueness-constraint     *)
(* deriver and the dynamic-document serializer.                            *)
(***************************************************************************)
EXTENDS Integers, Sequences, FiniteSets, TLC

(***************************************************************************)
(* Bounds of the model.                                                    *)
(***************************************************************************)
\* largest Meta.depth configured on a top-level serializer
MaxDepth == 2
\* largest Meta.depth_embedding configured on a top-level serializer
MaxDepthEmbedding == 2
\* Meta.depth_embedding is configured down to -MaxNegative; Python integers
\* are unbounded and build_field only tests the value for truth, so every
\* value below -MaxNegative is represented by -MaxNegative
MaxNegative == 2

(***************************************************************************)
(* Program constants.                                                      *)
(***************************************************************************)
DefaultDepth == 0
DefaultDepthEmbedding == 5
DepthLimit == 10

(***************************************************************************)
(* Field names.  A name is a sequence of its dot-separated parts:          *)
(* 'items' is <<"items">> and 'items.child' is <<"items", "child">>.       *)
(***************************************************************************)
ChildName(field_name) == Append(field_name, "child")

\* '.child' in fn
HasChildPart(fn) == \E i \in 2..Len(fn) : fn[i] = "child"

Range(s) == {s[i] : i \in 1..Len(s)}

\* Body(value), with value evaluated once
Bind(value, Body(_)) == CHOOSE result \in {Body(v) : v \in {value}} : TRUE

\* the elements of seq at the positions in the set positions, in order
AtPositions(seq, positions) ==
    [k \in 1..Cardinality(positions) |->
        seq[CHOOSE i \in positions : Cardinality({j \in positions : j <= i}) = k]]

\* [x for x in seq if Keep(x)]
Filter(seq, Keep(_)) ==
    Bind(seq, LAMBDA s :
        Bind({i \in 1..Len(s) : Keep(s[i])}, LAMBDA positions :
            AtPositions(s, positions)))

(***************************************************************************)
(* The document models.  A and B are Documents, E is an EmbeddedDocument.  *)
(* Every model has the same declared fields; the models its reference and  *)
(* embedded fields point to are chosen by the initial state, so that       *)
(* direct and indirect cycles occur.  NoModel is a generic relation        *)
(* (related_model is None).  One string field is called 'validators':      *)
(* get_uniqueness_extra_kwargs compares field names with that word.        *)
(***************************************************************************)
DocModels == {"A", "B"}
EmbModels == {"E"}
Models == DocModels \cup EmbModels
NoModel == "None"
\* a DynamicEmbeddedDocument that declares no field
FieldlessModel == "F"

VARIABLES
    refTo,      \* model -> the document its reference fields point to
    embTo,      \* model -> the embedded document its embedded fields hold
    root,       \* the top-level serializer
    pending,    \* serializers whose fields are not built yet
    cur,        \* the serializer get_fields ran on last
    fields,     \* the OrderedDict get_fields returned for cur
    index_specs,        \* model._meta['index_specs'], the same for every model
    model_defaults,     \* field name -> <<>> or <<the model field's default>>
    meta_extra_kwargs,  \* Meta.extra_kwargs of the top-level serializer
    uniqueness,         \* what get_uniqueness_extra_kwargs returned for cur
    validators,         \* what get_unique_together_validators returned for cur
    initial_data,       \* the data the top-level serializer was constructed with
    instance,           \* the instance it was constructed with: <<>> (None) or <<it>>
    validated_data,     \* the outcome of to_internal_value
    nested,             \* initial_data and _validated_data set on the nested fields
    save_kwargs,        \* the keyword arguments of serializer.save(**kwargs)
    result,             \* the outcome of create or update
    collection          \* the documents save was called on

treeVars == <<refTo, embTo, root, pending, cur, fields, index_specs, model_defaults,
              meta_extra_kwargs, uniqueness, validators>>

saveVars == <<initial_data, instance, validated_data, nested, save_kwargs, result,
              collection>>

vars == <<treeVars, saveVars>>

\* FieldInfo of a model, as get_field_info returns it
field_info(model) ==
    IF model = FieldlessModel
    THEN [pk |-> <<>>, fields |-> <<>>, references |-> <<>>, embedded |-> <<>>]
    ELSE
    [pk |-> IF model \in DocModels THEN <<"id">> ELSE <<>>,
     fields |-> << [name |-> <<"name">>, type |-> "StringField"],
                   [name |-> <<"validators">>, type |-> "StringField"],
                   [name |-> <<"tags">>, type |-> "ListField"],
                   [name |-> <<"tags", "child">>, type |-> "StringField"],
                   [name |-> <<"items">>, type |-> "ListField"],
                   [name |-> <<"slots">>, type |-> "DictField"],
                   [name |-> <<"links">>, type |-> "ListField"],
                   [name |-> <<"extra">>, type |-> "DictField"] >>,
     references |-> << [name |-> <<"ref">>, related_model |-> refTo[model]],
                       [name |-> <<"links", "child">>, related_model |-> refTo[model]] >>,
     embedded |-> << [name |-> <<"emb">>, related_model |-> embTo[model]],
                     [name |-> <<"items", "child">>, related_model |-> embTo[model]],
                     [name |-> <<"slots", "child">>, related_model |-> embTo[model]] >>]

\* attributes of the model class that are not fields (properties)
ModelProperties == {<<"label">>}

Keys(od) == {od[i].name : i \in 1..Len(od)}
KeyList(od) == [i \in 1..Len(od) |-> od[i].name]
Lookup(od, name) == od[CHOOSE i \in 1..Len(od) : od[i].name = name]

\* info.fields_and_pk
fields_and_pk(info) ==
    (IF info.pk = <<>> THEN <<>> ELSE << [name |-> info.pk, type |-> "ObjectIdField"] >>)
    \o info.fields

COMPOUND_FIELD_TYPES == {"ListField", "DictField"}

(***************************************************************************)
(* Serializers and serializer fields.                                      *)
(*   serializer: [cls, Meta, declared]; Meta carries the attributes the    *)
(*   class statement sets, has_* telling whether the attribute exists.     *)
(*   field: [cls, child, Meta, default]; child is <<>> or <<field>>, Meta  *)
(*   is <<>> or <<the Meta of the generated nested serializer class>>.     *)
(***************************************************************************)
ALL_FIELDS == << <<"__all__">> >>

NestedClasses == {"DocumentSerializer", "EmbeddedDocumentSerializer"}

Field(cls) == [cls |-> cls, child |-> <<>>, Meta |-> <<>>, default |-> "empty"]

\* embedded_depth - 1; values below -MaxNegative are kept at -MaxNegative
Decrement(n) == IF n - 1 < -MaxNegative THEN -MaxNegative ELSE n - 1

build_standard_field(field_name, model_field) ==
    Field(IF model_field.type = "StringField" THEN "CharField"
          ELSE IF model_field.type = "ObjectIdField" THEN "ObjectIdField"
          ELSE "DocumentField")

build_unknown_field(field_name, model_class) == Field("ImproperlyConfigured")

build_property_field(field_name, model_class) == Field("ReadOnlyField")

build_compound_field(field_name, model_field, child_field) ==
    IF model_field.type = "ListField"
    THEN [Field("ListField") EXCEPT !.child = child_field]
    ELSE IF model_field.type = "DictField"
    THEN [Field("DictField") EXCEPT !.child = child_field]
    ELSE build_unknown_field(field_name, "owner_document")

build_reference_field(field_name, relation_info, nested_depth) ==
    IF relation_info.related_model = NoModel
    THEN Field("GenericReferenceField")
    ELSE Field("ReferenceField")

\* mutant: the nested serializer keeps the depth of its parent
build_nested_reference_field_same_depth(field_name, relation_info, nested_depth) ==
    [Field("DocumentSerializer") EXCEPT
        !.Meta = << [model |-> relation_info.related_model,
                     fields |-> ALL_FIELDS,
                     has_depth |-> TRUE, depth |-> nested_depth,
                     has_depth_embedding |-> FALSE, depth_embedding |-> 0] >>]

build_nested_reference_field(field_name, relation_info, nested_depth) ==
    [Field("DocumentSerializer") EXCEPT
        !.Meta = << [model |-> relation_info.related_model,
                     fields |-> ALL_FIELDS,
                     has_depth |-> TRUE, depth |-> nested_depth - 1,
                     has_depth_embedding |-> FALSE, depth_embedding |-> 0] >>]

build_generic_embedded_field(field_name, relation_info, embedded_depth) ==
    Field("GenericEmbeddedDocumentField")

\* mutant: the nested serializer keeps the embedding depth of its parent
build_nested_embedded_field_same_depth(field_name, relation_info, embedded_depth) ==
    [Field("EmbeddedDocumentSerializer") EXCEPT
        !.Meta = << [model |-> relation_info.related_model,
                     fields |-> ALL_FIELDS,
                     has_depth |-> FALSE, depth |-> 0,
                     has_depth_embedding |-> TRUE,
                     depth_embedding |-> embedded_depth] >>]

build_nested_embedded_field(field_name, relation_info, embedded_depth) ==
    [Field("EmbeddedDocumentSerializer") EXCEPT
        !.Meta = << [model |-> relation_info.related_model,
                     fields |-> ALL_FIELDS,
                     has_depth |-> FALSE, depth |-> 0,
                     has_depth_embedding |-> TRUE,
                     depth_embedding |-> Decrement(embedded_depth)] >>]

build_bottom_embedded_field(field_name, relation_info, embedded_depth) ==
    [Field("HiddenField") EXCEPT !.default = "None"]

\* the reference branch of build_field
build_field_reference(field_name, relation_info, nested_depth) ==
    IF nested_depth # 0 /\ relation_info.related_model # NoModel
    THEN build_nested_reference_field(field_name, relation_info, nested_depth)
    ELSE build_reference_field(field_name, relation_info, nested_depth)

\* the embedded branch of build_field
build_field_embedded(field_name, relation_info, embedded_depth) ==
    IF relation_info.related_model = NoModel
    THEN build_generic_embedded_field(field_name, relation_info, embedded_depth)
    ELSE IF embedded_depth # 0
    THEN build_nested_embedded_field(field_name, relation_info, embedded_depth)
    ELSE build_bottom_embedded_field(field_name, relation_info, embedded_depth)

RECURSIVE build_field(_, _, _, _, _)
build_field(field_name, info, model_class, nested_depth, embedded_depth) ==
    IF field_name \in Keys(fields_and_pk(info))
    THEN LET model_field == Lookup(fields_and_pk(info), field_name)
             child_name == ChildName(field_name)
         IN  IF model_field.type \in COMPOUND_FIELD_TYPES
             THEN IF \/ child_name \in Keys(info.fields)
                     \/ child_name \in Keys(info.embedded)
                     \/ child_name \in Keys(info.references)
                  THEN build_compound_field(field_name, model_field,
                           << build_field(child_name, info, model_class,
                                          nested_depth, embedded_depth) >>)
                  ELSE build_compound_field(field_name, model_field, <<>>)
             ELSE build_standard_field(field_name, model_field)
    ELSE IF field_name \in Keys(info.references)
    THEN build_field_reference(field_name, Lookup(info.references, field_name),
                               nested_depth)
    ELSE IF field_name \in Keys(info.embedded)
    THEN build_field_embedded(field_name, Lookup(info.embedded, field_name),
                              embedded_depth)
    ELSE IF field_name \in ModelProperties
    THEN build_property_field(field_name, model_class)
    ELSE build_unknown_field(field_name, model_class)

(***************************************************************************)
(* Field names.                                                            *)
(***************************************************************************)
IsEmbeddedSerializer(cls) == cls = "EmbeddedDocumentSerializer"

\* DocumentSerializer.get_default_field_names and its override in
\* EmbeddedDocumentSerializer, which skips the id field
get_default_field_names(cls, declared_fields, model_info) ==
    IF IsEmbeddedSerializer(cls)
    THEN declared_fields \o KeyList(model_info.fields)
         \o KeyList(model_info.references) \o KeyList(model_info.embedded)
    ELSE <<model_info.pk>> \o declared_fields \o KeyList(model_info.fields)
         \o KeyList(model_info.references) \o KeyList(model_info.embedded)

\* ModelSerializer.get_field_names: Meta.fields when it is a list,
\* the default names when it is '__all__'
super_get_field_names(ser, declared_fields, model_info) ==
    IF ser.Meta.fields = ALL_FIELDS
    THEN get_default_field_names(ser.cls, declared_fields, model_info)
    ELSE ser.Meta.fields

\* mutant: the child fields are not filtered out
get_field_names_unfiltered(ser, declared_fields, model_info) ==
    super_get_field_names(ser, declared_fields, model_info)

\* filter out child fields
get_field_names(ser, declared_fields, model_info) ==
    Filter(super_get_field_names(ser, declared_fields, model_info),
           LAMBDA fn : ~HasChildPart(fn))

(***************************************************************************)
(* get_fields.                                                             *)
(***************************************************************************)
MetaDepth(Meta) == IF Meta.has_depth THEN Meta.depth ELSE DefaultDepth

MetaDepthEmbedding(Meta) ==
    IF Meta.has_depth_embedding THEN Meta.depth_embedding ELSE DefaultDepthEmbedding

\* the positions of field_names at which the loop of get_fields adds a key to
\* the OrderedDict: a name met again keeps the position of its first assignment
FirstPositions(field_names) ==
    {i \in 1..Len(field_names) : \A j \in 1..(i - 1) : field_names[j] # field_names[i]}

\* the keys of the OrderedDict in order
OrderedKeys(field_names) ==
    Bind(FirstPositions(field_names), LAMBDA first : AtPositions(field_names, first))

\* the body of the loop of get_fields for one name: the declared field, or the
\* field build_field decides
field_for(ser, field_name) ==
    IF field_name \in Range(ser.declared)
    THEN Field("Declared")
    ELSE Bind(field_info(ser.Meta.model), LAMBDA info :
             build_field(field_name, info, ser.Meta.model,
                         MetaDepth(ser.Meta), MetaDepthEmbedding(ser.Meta)))

get_fields(ser) ==
    Bind(get_field_names(ser, ser.declared, field_info(ser.Meta.model)),
         LAMBDA field_names :
             Bind(OrderedKeys(field_names), LAMBDA keys :
                 [k \in 1..Len(keys) |->
                     [name |-> keys[k], field |-> field_for(ser, keys[k])]]))

(***************************************************************************)
(* Uniqueness constraints.  An index spec is [fields, unique], fields the  *)
(* sequence of the index's field names.  A kwargs dict is a function from  *)
(* the keyword to its value; a dict of them is keyed by field name.        *)
(***************************************************************************)
EmptyDict == [k \in {} |-> TRUE]

\* a.update(b)
DictUpdate(a, b) ==
    [k \in DOMAIN a \cup DOMAIN b |-> IF k \in DOMAIN b THEN b[k] ELSE a[k]]

UniqueValidator(model) == [cls |-> "UniqueValidator", queryset |-> model]

UniqueTogetherValidator(model, field_tuple) ==
    [cls |-> "UniqueTogetherValidator", queryset |-> model, fields |-> field_tuple]

\* filter(lambda i: i.get('unique', False), index_specs)
uniq_indexes(specs) == Filter(specs, LAMBDA i : i.unique)

\* the fields of the unique indexes all of whose fields are on the serializer,
\* those of one-field indexes (single = TRUE) or of the others
IndexedFields(specs, field_names, single) ==
    UNION {Range(idx.fields) : idx \in
              {i \in Range(uniq_indexes(specs)) :
                  /\ Range(i.fields) \subseteq field_names
                  /\ (Cardinality(Range(i.fields)) = 1) = single}}

unique_kwargs(model) ==
    [k \in {"required", "validators"} |->
        IF k = "required" THEN TRUE ELSE <<UniqueValidator(model)>>]

unique_together_kwargs(defaults, field_name) ==
    IF defaults[field_name] # <<>>
    THEN [k \in {"default"} |-> defaults[field_name][1]]
    ELSE [k \in {"required"} |-> TRUE]

\* uniq_extra_kwargs after both loops: the second loop's entry replaces the first's
uniq_extra_kwargs(model, defaults, specs, field_names) ==
    Bind(IndexedFields(specs, field_names, TRUE), LAMBDA unique_fields :
    Bind(IndexedFields(specs, field_names, FALSE), LAMBDA unique_together_fields :
        [field_name \in unique_fields \cup unique_together_fields |->
            IF field_name \in unique_together_fields
            THEN unique_together_kwargs(defaults, field_name)
            ELSE unique_kwargs(model)]))

\* get_uniqueness_extra_kwargs: [extra_kwargs, hidden_fields, error]
get_uniqueness_extra_kwargs(model, defaults, specs, field_name_list, extra_kwargs) ==
    Bind(uniq_extra_kwargs(model, defaults, specs, Range(field_name_list)), LAMBDA uniq :
        IF <<"validators">> \in DOMAIN uniq \cap DOMAIN extra_kwargs
        THEN \* extra_kwargs[key] is a dict: it has no append
             [extra_kwargs |-> extra_kwargs, hidden_fields |-> EmptyDict,
              error |-> "AttributeError"]
        ELSE [extra_kwargs |->
                 [key \in DOMAIN extra_kwargs \cup DOMAIN uniq |->
                     IF key \in DOMAIN uniq
                     THEN IF key \in DOMAIN extra_kwargs
                          THEN DictUpdate(extra_kwargs[key], uniq[key])
                          ELSE uniq[key]
                     ELSE extra_kwargs[key]],
              hidden_fields |-> EmptyDict,
              error |-> ""])

RECURSIVE together_validators(_, _, _)
together_validators(model, specs, field_names) ==
    IF specs = <<>> THEN <<>>
    ELSE LET idx == Head(specs)
             field_set == idx.fields
         IN  (IF Len(field_set) > 1 /\ Range(field_set) \subseteq field_names
              THEN << UniqueTogetherValidator(model, field_set) >>
              ELSE <<>>)
             \o together_validators(model, Tail(specs), field_names)

\* mutant: the indexes that are not unique give validators too
get_unique_together_validators_any_index(ser, specs) ==
    IF IsEmbeddedSerializer(ser.cls) THEN <<>>
    ELSE together_validators(
             ser.Meta.model, specs,
             Range(get_field_names(ser, ser.declared, field_info(ser.Meta.model))))

\* DocumentSerializer.get_unique_together_validators and its override in
\* EmbeddedDocumentSerializer
get_unique_together_validators(ser, specs) ==
    IF IsEmbeddedSerializer(ser.cls) THEN <<>>
    ELSE together_validators(
             ser.Meta.model, uniq_indexes(specs),
             Range(get_field_names(ser, ser.declared, field_info(ser.Meta.model))))


(***************************************************************************)
(* Building the field tree.  Every nested serializer a get_fields call     *)
(* generates is itself asked for its fields.  A node is a serializer with  *)
(* its nesting level below the top-level serializer and the kind of path   *)
(* that leads to it (history, for the statements about chains).            *)
(***************************************************************************)
\* deepest level of a tree whose depths all count down from values >= 0;
\* deeper levels are told apart by their parity only, so that a walk that
\* goes on below LevelCap keeps taking steps
LevelCap == MaxDepth + DefaultDepthEmbedding + MaxDepthEmbedding + 1

NextLevel(level) == IF level + 1 > LevelCap + 1 THEN LevelCap ELSE level + 1

PathKind(cls) == IF IsEmbeddedSerializer(cls) THEN "embedded" ELSE "references"

NextPath(path, cls) ==
    IF path = "root" \/ path = PathKind(cls) THEN PathKind(cls) ELSE "mixed"

\* the nested serializers of a field: itself, or the one its child is
RECURSIVE NestedSerializers(_)
NestedSerializers(field) ==
    (IF field.cls \in NestedClasses
     THEN {[cls |-> field.cls, Meta |-> field.Meta[1], declared |-> <<>>]}
     ELSE {})
    \cup (IF field.child = <<>> THEN {} ELSE NestedSerializers(field.child[1]))

ChildNodes(node, od) ==
    {[ser |-> s, level |-> NextLevel(node.level), path |-> NextPath(node.path, s.cls)] :
        s \in UNION {NestedSerializers(od[i].field) : i \in 1..Len(od)}}

\* what the top-level serializer class declares: fields and Meta.fields
RootOptions ==
    { [declared |-> <<>>, fields |-> ALL_FIELDS],
      [declared |-> << <<"note">> >>, fields |-> ALL_FIELDS],
      [declared |-> << <<"emb">> >>, fields |-> ALL_FIELDS],
      [declared |-> <<>>,
       fields |-> << <<"name">>, <<"items">>, <<"items", "child">>,
                     <<"emb">>, <<"ref">>, <<"label">> >>] }

RootDepths == 0..(IF MaxDepth > DepthLimit THEN DepthLimit ELSE MaxDepth)

RootSerializers ==
    {[cls |-> IF model \in EmbModels THEN "EmbeddedDocumentSerializer"
              ELSE "DocumentSerializer",
      Meta |-> [model |-> model, fields |-> opt.fields,
                has_depth |-> TRUE, depth |-> depth,
                has_depth_embedding |-> de[1], depth_embedding |-> de[2]],
      declared |-> opt.declared] :
        model \in Models, opt \in RootOptions, depth \in RootDepths,
        de \in {<<FALSE, 0>>}
               \cup {<<TRUE, d>> : d \in (-MaxNegative)..MaxDepthEmbedding}}

\* the model graphs: who references whom, who embeds whom
RefGraphs ==
    { [m \in Models |-> IF m = "E" THEN "A" ELSE m],        \* A and B reference themselves
      [m \in Models |-> IF m = "A" THEN "B" ELSE "A"],      \* A -> B -> A
      [m \in Models |-> IF m = "B" THEN "A" ELSE NoModel] } \* generic references

EmbGraphs ==
    { [m \in Models |-> "E"],                               \* E embeds itself
      [m \in Models |-> IF m = "E" THEN NoModel ELSE "E"],  \* generic below E
      [m \in Models |-> IF m = "A" THEN NoModel ELSE "E"] }

NotCalled == [called |-> FALSE, result |-> <<>>]

\* to_internal_value, create and update have not been called
NotValidated == [status |-> "none", value |-> <<>>]

NoResult == [op |-> "none", error |-> "", message |-> <<>>, instance |-> <<>>, log |-> <<>>]

NothingWritten ==
    /\ initial_data = <<>>
    /\ instance = <<>>
    /\ validated_data = NotValidated
    /\ nested = <<>>
    /\ save_kwargs = <<>>
    /\ result = NoResult
    /\ collection = {}

NoUniqueness == [extra_kwargs |-> EmptyDict, hidden_fields |-> EmptyDict, error |-> ""]

\* the indexes of the models while the field tree is built
TreeIndexSpecs ==
    << [fields |-> << <<"name">> >>, unique |-> TRUE],
       [fields |-> << <<"name">>, <<"ref">> >>, unique |-> TRUE] >>

NoDefaults == [fn \in Keys(field_info("A").fields) \cup {<<"ref">>, <<"emb">>} |-> <<>>]

InitFields ==
    /\ refTo \in RefGraphs
    /\ embTo \in EmbGraphs
    /\ index_specs = TreeIndexSpecs
    /\ model_defaults = NoDefaults
    /\ meta_extra_kwargs = EmptyDict
    /\ root \in RootSerializers
    /\ pending = {[ser |-> root, level |-> 0, path |-> "root"]}
    /\ cur = <<>>
    /\ fields = <<>>
    /\ uniqueness = NoUniqueness
    /\ validators = NotCalled
    /\ NothingWritten

\* self.get_extra_kwargs(): Meta.extra_kwargs; the generated nested classes have none
get_extra_kwargs(node) == IF node.path = "root" THEN meta_extra_kwargs ELSE EmptyDict

\* get_fields of one serializer whose fields are not built yet.  The fields
\* are recorded as build_field returns them; the keyword arguments that
\* get_uniqueness_extra_kwargs adds are recorded in uniqueness.  An exception
\* in get_uniqueness_extra_kwargs ends the call: no field is built.
GetFields(node) ==
    LET ser == node.ser
        field_names == get_field_names(ser, ser.declared, field_info(ser.Meta.model))
    IN  \E got \in {get_uniqueness_extra_kwargs(ser.Meta.model, model_defaults, index_specs,
                                                 field_names, get_extra_kwargs(node))} :
        \E od \in {IF got.error = "" THEN get_fields(ser) ELSE <<>>} :
        /\ node \in pending
        /\ cur' = <<node>>
        /\ uniqueness' = got
        /\ fields' = od
        /\ pending' = (pending \ {node}) \cup ChildNodes(node, od)
        /\ validators' = NotCalled
        /\ UNCHANGED <<refTo, embTo, root, index_specs, model_defaults, meta_extra_kwargs>>
        /\ UNCHANGED saveVars

\* get_unique_together_validators of the serializer whose fields were built
\* last: it reads self.field_info, which get_fields sets
GetUniqueTogetherValidators ==
    /\ cur # <<>>
    /\ uniqueness.error = ""
    /\ validators' = [called |-> TRUE,
                      result |-> get_unique_together_validators(cur[1].ser, index_specs)]
    /\ UNCHANGED <<refTo, embTo, root, pending, cur, fields, index_specs,
                   model_defaults, meta_extra_kwargs, uniqueness>>
    /\ UNCHANGED saveVars

\* the walk is depth-first: a deepest serializer is expanded next
Deepest(nodes) == CHOOSE node \in nodes : \A other \in nodes : other.level <= node.level

BuildNext == pending # {} /\ \E node \in {Deepest(pending)} : GetFields(node)

NextFields == BuildNext \/ GetUniqueTogetherValidators

SpecFields == InitFields /\ [][NextFields]_vars

\* every serializer whose fields are asked for gets them; the top-level
\* serializers are those with Meta.fields = '__all__' and no declared field
InitFair == InitFields /\ root.Meta.fields = ALL_FIELDS /\ root.declared = <<>>

FairFields == InitFair /\ [][NextFields]_vars /\ WF_vars(BuildNext)

(***************************************************************************)
(* The uniqueness constraints of one serializer: the same operations, on   *)
(* top-level serializers that nest nothing, for the indexes, defaults and  *)
(* Meta.extra_kwargs a model and its serializer may declare.               *)
(***************************************************************************)
\* most indexes a model declares
MaxIndexes == 2

IndexPool ==
    { [fields |-> << <<"name">> >>, unique |-> TRUE],
      [fields |-> << <<"validators">> >>, unique |-> TRUE],
      [fields |-> << <<"name">>, <<"ref">> >>, unique |-> TRUE],
      [fields |-> << <<"ref">>, <<"emb">> >>, unique |-> TRUE],
      [fields |-> << <<"name">>, <<"emb">> >>, unique |-> FALSE] }

IndexSpecs == UNION {[1..n -> IndexPool] : n \in 0..MaxIndexes}

DefaultOptions ==
    { NoDefaults,
      [NoDefaults EXCEPT ![<<"name">>] = <<"anonymous">>],
      [NoDefaults EXCEPT ![<<"ref">>] = <<"nobody">>] }

ExtraKwargsOptions ==
    { EmptyDict,
      [fn \in {<<"name">>} |-> [k \in {"required"} |-> FALSE]],
      [fn \in {<<"validators">>} |-> [k \in {"required"} |-> FALSE]] }

FieldsOptions ==
    { ALL_FIELDS,
      << <<"name">> >>,
      << <<"name">>, <<"validators">>, <<"ref">> >>,
      << <<"ref">>, <<"emb">> >> }

UniqSerializers ==
    {[cls |-> IF model \in EmbModels THEN "EmbeddedDocumentSerializer"
              ELSE "DocumentSerializer",
      Meta |-> [model |-> model, fields |-> names,
                has_depth |-> FALSE, depth |-> 0,
                has_depth_embedding |-> TRUE, depth_embedding |-> 0],
      declared |-> <<>>] :
        model \in {"A", "E"}, names \in FieldsOptions}

InitUniq ==
    /\ refTo \in {g \in RefGraphs : g["A"] = "B"}
    /\ embTo \in {g \in EmbGraphs : g["E"] = NoModel}
    /\ index_specs \in IndexSpecs
    /\ model_defaults \in DefaultOptions
    /\ meta_extra_kwargs \in ExtraKwargsOptions
    /\ root \in UniqSerializers
    /\ pending = {[ser |-> root, level |-> 0, path |-> "root"]}
    /\ cur = <<>>
    /\ fields = <<>>
    /\ uniqueness = NoUniqueness
    /\ validators = NotCalled
    /\ NothingWritten

SpecUniq == InitUniq /\ [][NextFields]_vars

(***************************************************************************)
(* Statements about the field tree.                                        *)
(***************************************************************************)
Built == cur # <<>> /\ uniqueness.error = ""

CurSer == cur[1].ser

CurInfo == field_info(CurSer.Meta.model)

\* the serializer field cur built for a model field: the entry of that name,
\* or the child of its compound parent; none when the name is left out or
\* the field is declared on the class
BuiltFor(name) ==
    LET top == <<name[1]>>
    IN  IF top \notin Keys(fields) \/ top \in Range(CurSer.declared) THEN {}
        ELSE IF Len(name) = 1 THEN {Lookup(fields, top).field}
        ELSE IF Lookup(fields, top).field.child = <<>> THEN {}
        ELSE {Lookup(fields, top).field.child[1]}

BuiltEmbedded ==
    BuiltFor(<<"emb">>) \cup BuiltFor(<<"items", "child">>)
    \cup BuiltFor(<<"slots", "child">>)

BuiltReferences == BuiltFor(<<"ref">>) \cup BuiltFor(<<"links", "child">>)

Done == pending = {}

\* C1: building the complete field tree terminates, whatever the model graph,
\* Meta.depth in 0..10 and the integer configured as Meta.depth_embedding:
\* eventually no serializer is left whose fields are still to be built.
C1_FieldTreeTerminates == <>Done

\* the part of C1 the code keeps: with an embedding depth that is not negative
\* the tree is finite
TerminatesWhenNotNegative == (MetaDepthEmbedding(root.Meta) >= 0) => <>Done

\* C2: an embedded field with a known model, built by a serializer whose
\* embedding depth d is >= 0, is a nested EmbeddedDocumentSerializer with
\* depth_embedding d - 1 when d > 0 and the HiddenField with default None when
\* d = 0; along a chain of embeddings below a top-level serializer configured
\* with depth t >= 0 the serializer at level k has depth t - k, so the chain
\* has exactly t nested levels.
C2_EmbeddingDepth ==
    Built =>
        LET d == MetaDepthEmbedding(CurSer.Meta)
            t == MetaDepthEmbedding(root.Meta)
            related == embTo[CurSer.Meta.model]
        IN  /\ (d >= 0 /\ related # NoModel) =>
                \A f \in BuiltEmbedded :
                    IF d > 0
                    THEN /\ f.cls = "EmbeddedDocumentSerializer"
                         /\ f.Meta # <<>>
                         /\ f.Meta[1].model = related
                         /\ f.Meta[1].has_depth_embedding
                         /\ f.Meta[1].depth_embedding = d - 1
                    ELSE /\ f.cls = "HiddenField"
                         /\ f.Meta = <<>>
                         /\ f.default = "None"
            /\ (t >= 0 /\ cur[1].path \in {"root", "embedded"}) =>
                /\ cur[1].level + d = t
                /\ cur[1].level <= t

\* C2 happens: the bottom of a chain of at least two embeddings
C2_Witness ==
    /\ Built
    /\ cur[1].path = "embedded"
    /\ cur[1].level >= 2
    /\ cur[1].level = MetaDepthEmbedding(root.Meta)
    /\ \E f \in BuiltFor(<<"emb">>) : f.cls = "HiddenField" /\ f.default = "None"
    /\ \E f \in BuiltFor(<<"items", "child">>) : f.cls = "HiddenField"

\* C3: a reference field with a known related model is a nested serializer
\* exactly when the depth of the serializer that builds it is > 0, and the
\* nested serializer has that depth less one; otherwise it is the flat
\* ReferenceField.  Along a chain of references below a top-level serializer
\* with Meta.depth n the serializer at level k has depth n - k, so the chain has
\* n nested levels and then the flat field.
C3_ReferenceDepth ==
    Built =>
        LET depth == MetaDepth(CurSer.Meta)
            n == MetaDepth(root.Meta)
            related == refTo[CurSer.Meta.model]
        IN  /\ related # NoModel =>
                \A f \in BuiltReferences :
                    IF depth > 0
                    THEN /\ f.cls = "DocumentSerializer"
                         /\ f.Meta # <<>>
                         /\ f.Meta[1].model = related
                         /\ f.Meta[1].has_depth
                         /\ f.Meta[1].depth = depth - 1
                    ELSE /\ f.cls = "ReferenceField"
                         /\ f.Meta = <<>>
            /\ cur[1].path \in {"root", "references"} =>
                /\ cur[1].level + depth = n
                /\ cur[1].level <= n

\* C3 happens: the end of a chain of at least two nested references
C3_Witness ==
    /\ Built
    /\ cur[1].path = "references"
    /\ cur[1].level >= 2
    /\ cur[1].level = MetaDepth(root.Meta)
    /\ \E f \in BuiltFor(<<"ref">>) : f.cls = "ReferenceField"
    /\ \E f \in BuiltFor(<<"links", "child">>) : f.cls = "ReferenceField"

\* the field names of the models, in the order of their declaration, without
\* the '.child' names
ModelFieldNames ==
    << <<"name">>, <<"validators">>, <<"tags">>, <<"items">>, <<"slots">>,
       <<"links">>, <<"extra">>, <<"ref">>, <<"emb">> >>

\* C10: with Meta.fields = '__all__' the fields of an EmbeddedDocumentSerializer
\* are its declared fields, then the model's fields, references and embedded
\* fields, with no primary key, and its unique-together validators are none;
\* the fields of a DocumentSerializer start with the primary key.  No field
\* name of either contains '.child': a child field is the child of its list or
\* dict field.
C10_FieldNames ==
    Built =>
        /\ \A fn \in Keys(fields) : ~HasChildPart(fn)
        /\ \A parent \in {<<"tags">>, <<"items">>, <<"slots">>, <<"links">>} :
              \A f \in BuiltFor(parent) :
                  /\ f.child # <<>>
                  /\ BuiltFor(ChildName(parent)) = {f.child[1]}
        /\ \A f \in BuiltFor(<<"extra">>) : f.child = <<>>
        /\ IF IsEmbeddedSerializer(CurSer.cls)
           THEN /\ CurSer.Meta.fields = ALL_FIELDS =>
                     KeyList(fields) = CurSer.declared \o
                         Filter(ModelFieldNames,
                                LAMBDA fn : fn \notin Range(CurSer.declared))
                /\ <<"id">> \notin Keys(fields)
                /\ validators.result = <<>>
           ELSE CurSer.Meta.fields = ALL_FIELDS =>
                     /\ fields[1].name = <<"id">>
                     /\ fields[1].name = CurInfo.pk

\* C10 happens: an embedded serializer with a declared field has its fields
\* and was asked for its validators; a document serializer of the same tree
\* (its parent) has validators
C10_Witness ==
    /\ Built
    /\ IsEmbeddedSerializer(CurSer.cls)
    /\ CurSer.Meta.fields = ALL_FIELDS
    /\ CurSer.declared # <<>>
    /\ validators.called
    /\ Len(fields) = Len(ModelFieldNames) + 1

(***************************************************************************)
(* Statements about the uniqueness constraints.                            *)
(***************************************************************************)
CurNames == Range(get_field_names(CurSer, CurSer.declared, CurInfo))

\* the unique indexes all of whose fields are fields of the serializer
CoveredIndexes ==
    {idx \in Range(index_specs) : idx.unique /\ Range(idx.fields) \subseteq CurNames}

\* what Meta.extra_kwargs says of a field
GivenKwargs(fn) ==
    IF fn \in DOMAIN get_extra_kwargs(cur[1]) THEN get_extra_kwargs(cur[1])[fn]
    ELSE EmptyDict

DerivedKwargs(fn) ==
    IF fn \in DOMAIN uniqueness.extra_kwargs THEN uniqueness.extra_kwargs[fn]
    ELSE EmptyDict

\* C7: for every unique index with exactly one field that is a field of the
\* serializer, the extra kwargs of that field have required = True and a
\* validators list holding a UniqueValidator over the model's objects, whatever
\* other unique indexes the model declares; the kwargs of a field that no
\* covered unique index names are those of Meta.extra_kwargs.
C7_UniqueValidator ==
    Built =>
        /\ \A idx \in CoveredIndexes :
              Len(idx.fields) = 1 =>
                  LET kwargs == DerivedKwargs(idx.fields[1])
                  IN  /\ "required" \in DOMAIN kwargs
                      /\ kwargs["required"] = TRUE
                      /\ "validators" \in DOMAIN kwargs
                      /\ UniqueValidator(CurSer.Meta.model) \in Range(kwargs["validators"])
        /\ \A fn \in Range(ModelFieldNames) :
              (\A idx \in CoveredIndexes : fn \notin Range(idx.fields)) =>
                  DerivedKwargs(fn) = GivenKwargs(fn)

\* the validators C8 expects: one for every covered index of several fields
ExpectedTogether ==
    Filter(index_specs,
           LAMBDA idx : idx.unique /\ Len(idx.fields) > 1
                        /\ Range(idx.fields) \subseteq CurNames)

None == [none |-> TRUE]
Raw(s) == [raw |-> s]
Str(s) == [str |-> s]
Ref(s) == [ref |-> s]
Mapping(pairs) == [map |-> pairs]
List(items) == [list |-> items]
Doc(inst) == [doc |-> inst]
\* a value that is no string, list, dict or document
Number(n) == [int |-> n]

IsRaw(v) == "raw" \in DOMAIN v
IsMapping(v) == "map" \in DOMAIN v
IsList(v) == "list" \in DOMAIN v
IsDoc(v) == "doc" \in DOMAIN v
IsString(v) == "raw" \in DOMAIN v \/ "str" \in DOMAIN v

Pair(name, value) == [name |-> name, value |-> value]

\* the concatenation of a sequence of sequences
RECURSIVE Concat(_)
Concat(seqs) ==
    IF seqs = <<>> THEN <<>>
    ELSE Concat(SubSeq(seqs, 1, Len(seqs) - 1)) \o seqs[Len(seqs)]

\* the nested serializer a field is
NestedSerializer(field) == [cls |-> field.cls, Meta |-> field.Meta[1], declared |-> <<>>]

\* the fields the utils builders make read-only: the primary key and nested
\* reference serializers; a ReadOnlyField is read-only by its class
read_only(field) == field.cls \in {"ObjectIdField", "DocumentSerializer", "ReadOnlyField"}

\* self._writable_fields
_writable_fields(ser) == Filter(get_fields(ser), LAMBDA f : ~read_only(f.field))

Valid(value) == [error |-> "", value |-> value]
Invalid == [error |-> "ValidationError", value |-> None]

\* the first error of a sequence of outcomes, "" when there is none
FirstError(outcomes) ==
    IF \A i \in 1..Len(outcomes) : outcomes[i].error = "" THEN ""
    ELSE outcomes[CHOOSE i \in 1..Len(outcomes) :
                     /\ outcomes[i].error # ""
                     /\ \A j \in 1..(i - 1) : outcomes[j].error = ""].error

(***************************************************************************)
(* Serializer.to_internal_value of rest_framework, which line 201 calls:   *)
(* every writable field takes its value from data, validates it, and the   *)
(* validated values are collected in the order of the fields.  A field     *)
(* without a value is skipped (no model field is required here); a         *)
(* HiddenField never reads the data and yields its default.                *)
(***************************************************************************)
RECURSIVE run_validation(_, _)
RECURSIVE super_to_internal_value(_, _)

run_validation(field, data) ==
    IF field.cls \in {"CharField", "Declared"}
    THEN IF IsRaw(data) THEN Valid(Str(data.raw)) ELSE Invalid
    ELSE IF field.cls = "ReferenceField"
    THEN IF IsRaw(data) THEN Valid(Ref(data.raw)) ELSE Invalid
    ELSE IF field.cls = "ListField"
    THEN IF ~IsList(data) THEN Invalid
         ELSE IF field.child = <<>> THEN Valid(data)
         ELSE LET items == [i \in 1..Len(data.list) |->
                               run_validation(field.child[1], data.list[i])]
              IN  IF FirstError(items) # "" THEN Invalid
                  ELSE Valid(List([i \in 1..Len(items) |-> items[i].value]))
    ELSE IF field.cls = "DictField"
    THEN IF ~IsMapping(data) THEN Invalid
         ELSE IF field.child = <<>> THEN Valid(data)
         ELSE LET items == [i \in 1..Len(data.map) |->
                               run_validation(field.child[1], data.map[i].value)]
              IN  IF FirstError(items) # "" THEN Invalid
                  ELSE Valid(Mapping([i \in 1..Len(items) |->
                                         Pair(data.map[i].name, items[i].value)]))
    ELSE IF field.cls = "EmbeddedDocumentSerializer"
    THEN IF ~IsMapping(data) THEN Invalid
         ELSE LET ret == super_to_internal_value(NestedSerializer(field), data.map)
              IN  IF ret.error # "" THEN Invalid ELSE Valid(Mapping(ret.value))
    ELSE Valid(data)

\* the outcome of one writable field: skipped, or its name and validated value
field_outcome(f, data) ==
    IF f.field.cls = "HiddenField"
    THEN [error |-> "", set |-> << Pair(f.name, None) >>]
    ELSE IF f.name \notin Keys(data)
    THEN [error |-> "", set |-> <<>>]
    ELSE LET validated == run_validation(f.field, Lookup(data, f.name).value)
         IN  [error |-> validated.error, set |-> << Pair(f.name, validated.value) >>]

\* Meta.extra_kwargs of a serializer class; the generated nested classes
\* have none
extra_kwargs_of(ser) == IF ser = root THEN meta_extra_kwargs ELSE EmptyDict

\* field.source: the field's name unless extra_kwargs gives another; a dotted
\* source has more than one part
source(ser, f) ==
    LET kwargs == extra_kwargs_of(ser)
    IN  IF f.name \in DOMAIN kwargs /\ "source" \in DOMAIN kwargs[f.name]
        THEN kwargs[f.name]["source"]
        ELSE f.name

\* dictionary[key] = value
DictSet(ret, key, value) ==
    IF key \in Keys(ret)
    THEN [i \in 1..Len(ret) |-> IF ret[i].name = key THEN Pair(key, value) ELSE ret[i]]
    ELSE Append(ret, Pair(key, value))

\* set_value cannot descend into a value that is no dict
CanSet(ret, keys) ==
    \/ Len(keys) = 1
    \/ << keys[1] >> \notin Keys(ret)
    \/ IsMapping(Lookup(ret, << keys[1] >>).value)

\* set_value(ret, field.source_attrs, value) of rest_framework: the value goes
\* under the last part of the source, inside the dicts the parts before name
RECURSIVE set_value(_, _, _)
set_value(ret, keys, value) ==
    IF Len(keys) = 1 THEN DictSet(ret, keys, value)
    ELSE LET first == << keys[1] >>
             inner == IF first \in Keys(ret) THEN Lookup(ret, first).value.map ELSE <<>>
         IN  DictSet(ret, first, Mapping(set_value(inner, Tail(keys), value)))

\* the validated values of the first n writable fields, set in their order
RECURSIVE set_values(_, _, _, _)
set_values(ser, writable, outcomes, n) ==
    IF n = 0 THEN [error |-> "", value |-> <<>>]
    ELSE LET ret == set_values(ser, writable, outcomes, n - 1)
             keys == source(ser, writable[n])
         IN  IF ret.error # "" \/ outcomes[n].set = <<>> THEN ret
             ELSE IF ~CanSet(ret.value, keys)
             THEN [error |-> "TypeError", value |-> <<>>]
             ELSE [error |-> "",
                   value |-> set_value(ret.value, keys, outcomes[n].set[1].value)]

super_to_internal_value(ser, data) ==
    LET writable == _writable_fields(ser)
        outcomes == [i \in 1..Len(writable) |-> field_outcome(writable[i], data)]
    IN  IF FirstError(outcomes) # ""
        THEN [error |-> "ValidationError", value |-> <<>>]
        ELSE set_values(ser, writable, outcomes, Len(writable))

\* the writable fields that are EmbeddedDocumentSerializers
embedded_fields(ser) ==
    Filter(_writable_fields(ser), LAMBDA f : IsEmbeddedSerializer(f.field.cls))

\* DocumentSerializer.to_internal_value: super()'s result; the nested
\* EmbeddedDocumentSerializers named in data get initial_data before the
\* call, those named in its result get _validated_data after it
to_internal_value(ser, data) ==
    LET ret == super_to_internal_value(ser, data)
        embedded == embedded_fields(ser)
        named == Filter(embedded, LAMBDA f : f.name \in Keys(data))
    IN  [error |-> ret.error,
         value |-> ret.value,
         nested |-> [i \in 1..Len(named) |->
                        [name |-> named[i].name,
                         initial_data |-> Lookup(data, named[i].name).value,
                         validated_data |->
                             IF ret.error = "" /\ named[i].name \in Keys(ret.value)
                             THEN << Lookup(ret.value, named[i].name).value >>
                             ELSE <<>>]]]

IsDynamicSerializer(cls) == cls = "DynamicDocumentSerializer"

\* mutant: no key is reported as dynamic data
_get_dynamic_data_none(ser, init_data, validated) ==
    [error |-> "", value |-> <<>>]

\* DynamicDocumentSerializer._get_dynamic_data: the keys of self.initial_data
\* that validated_data lacks; one of them that is a serializer field raises
\* (no field is an instance of SkipField)
_get_dynamic_data(ser, init_data, validated) ==
    LET missing == Filter(init_data, LAMBDA d : d.name \notin Keys(validated))
    IN  IF \E i \in 1..Len(missing) : missing[i].name \in Keys(get_fields(ser))
        THEN [error |-> "AssertionError", value |-> <<>>]
        ELSE [error |-> "", value |-> missing]

\* ret.update(dynamic_data)
OrderedUpdate(ret, other) ==
    [i \in 1..Len(ret) |->
        IF ret[i].name \in Keys(other) THEN Lookup(other, ret[i].name) ELSE ret[i]]
    \o Filter(other, LAMBDA d : d.name \notin Keys(ret))

\* DynamicDocumentSerializer.to_internal_value
dynamic_to_internal_value(ser, init_data, data) ==
    LET ret == to_internal_value(ser, data)
        dynamic_data == _get_dynamic_data(ser, init_data, ret.value)
    IN  IF ret.error # "" THEN ret
        ELSE IF dynamic_data.error # ""
        THEN [ret EXCEPT !.error = dynamic_data.error, !.value = <<>>]
        ELSE [ret EXCEPT !.value = OrderedUpdate(ret.value, dynamic_data.value)]

(***************************************************************************)
(* Document instances, as mongoengine makes them at lines 256 and 259.     *)
(***************************************************************************)
\* the attributes a model declares: its fields without the '.child' entries
DeclaredAttrs(model) ==
    LET info == field_info(model)
    IN  {n \in Keys(fields_and_pk(info)) \cup Keys(info.references)
                \cup Keys(info.embedded) : Len(n) = 1}

\* the value of a declared attribute that was never set
DefaultValue(model, name) ==
    LET info == field_info(model)
    IN  IF name \notin Keys(info.fields) THEN None
        ELSE IF Lookup(info.fields, name).type = "ListField" THEN List(<<>>)
        ELSE IF Lookup(info.fields, name).type = "DictField" THEN Mapping(<<>>)
        ELSE None

\* self.Meta.model(**me_data)
Construct(model, me_data) ==
    [model |-> model, origin |-> "constructed",
     data |-> [k \in DeclaredAttrs(model) \cup Keys(me_data) |->
                  IF k \in Keys(me_data) THEN Lookup(me_data, k).value
                  ELSE DefaultValue(model, k)]]

\* setattr(instance, key, value) for every item of me_data
SetAttrs(inst, me_data) ==
    [inst EXCEPT !.data = [k \in DOMAIN inst.data \cup Keys(me_data) |->
                              IF k \in Keys(me_data) THEN Lookup(me_data, k).value
                              ELSE inst.data[k]]]

\* the truth value of the instance argument: None is false, and a document
\* is false when its _data is empty (BaseDocument.__len__)
Truthy(inst_opt) == inst_opt # <<>> /\ DOMAIN inst_opt[1].data # {}

\* what instance.save() validates first (mongoengine's BaseDocument.validate):
\* a declared field is None or a value of its type: a string in a
\* StringField, a valid embedded document in an EmbeddedDocumentField, and
\* such values in the lists and dicts of them; undeclared attributes are
\* not validated
RECURSIVE validate(_)
RECURSIVE ValidFor(_, _, _)
ValidFor(info, name, v) ==
    IF name \in Keys(info.embedded) THEN IsDoc(v) /\ validate(v.doc)
    ELSE IF name \notin Keys(info.fields) THEN TRUE
    ELSE IF Lookup(info.fields, name).type = "StringField" THEN IsString(v)
    ELSE IF Lookup(info.fields, name).type = "ListField"
    THEN /\ IsList(v)
         /\ \A i \in 1..Len(v.list) :
               v.list[i] = None \/ ValidFor(info, ChildName(name), v.list[i])
    ELSE IF Lookup(info.fields, name).type = "DictField"
    THEN /\ IsMapping(v)
         /\ \A i \in 1..Len(v.map) :
               v.map[i].value = None \/ ValidFor(info, ChildName(name), v.map[i].value)
    ELSE TRUE

validate(inst) ==
    \A k \in DOMAIN inst.data :
        inst.data[k] = None \/ ValidFor(field_info(inst.model), k, inst.data[k])

(***************************************************************************)
(* recursive_save.  Its outcome is [error, instance, log]: the log lists   *)
(* what was done to documents, in order: construct, setattr, save.         *)
(***************************************************************************)
Event(op, inst, kwargs) == [op |-> op, instance |-> inst, kwargs |-> kwargs]

\* the outcomes up to the first one that raised
UpToFirstError(outcomes) ==
    IF FirstError(outcomes) = "" THEN outcomes
    ELSE SubSeq(outcomes, 1, CHOOSE i \in 1..Len(outcomes) :
                                 /\ outcomes[i].error # ""
                                 /\ \A j \in 1..(i - 1) : outcomes[j].error = "")

LogOf(outcomes) ==
    LET done == UpToFirstError(outcomes)
    IN  Concat([i \in 1..Len(done) |-> done[i].log])

\* mutant: every serializer saves the instance it made
_saving_instances_always(cls) == TRUE

\* self._saving_instances: True, False in EmbeddedDocumentSerializer
_saving_instances(cls) == ~IsEmbeddedSerializer(cls)

is_embedded_list(field) ==
    /\ field.cls \in {"ListSerializer", "ListField"}
    /\ field.child # <<>>
    /\ IsEmbeddedSerializer(field.child[1].cls)

\* mutant: a dict of embedded documents is not recognised
is_embedded_dict_never(field) == FALSE

is_embedded_dict(field) ==
    /\ field.cls = "DictField"
    /\ field.child # <<>>
    /\ IsEmbeddedSerializer(field.child[1].cls)

RECURSIVE recursive_save(_, _, _)

\* field.recursive_save(value) of an EmbeddedDocumentSerializer field
save_embedded(field, value) ==
    IF ~IsMapping(value)
    THEN [error |-> "AttributeError", value |-> None, log |-> <<>>]
    ELSE LET saved == recursive_save(NestedSerializer(field), value.map, <<>>)
         IN  [error |-> saved.error,
              value |-> IF saved.error = "" THEN Doc(saved.instance[1]) ELSE None,
              log |-> saved.log]

\* the list branch
save_list(field, value) ==
    IF ~IsList(value)
    THEN [error |-> "TypeError", value |-> None, log |-> <<>>]
    ELSE LET data == [i \in 1..Len(value.list) |->
                         save_embedded(field.child[1], value.list[i])]
         IN  [error |-> FirstError(data),
              value |-> List([i \in 1..Len(data) |-> data[i].value]),
              log |-> LogOf(data)]

\* the dict branch
save_dict(field, value) ==
    IF ~IsMapping(value)
    THEN [error |-> "AttributeError", value |-> None, log |-> <<>>]
    ELSE LET data == [i \in 1..Len(value.map) |->
                         save_embedded(field.child[1], value.map[i].value)]
         IN  [error |-> FirstError(data),
              value |-> Mapping([i \in 1..Len(data) |->
                                    Pair(value.map[i].name, data[i].value)]),
              log |-> LogOf(data)]

\* the body of the loop of recursive_save: me_data[key]
save_value(self_fields, key, value) ==
    IF key \notin Keys(self_fields)
    THEN [error |-> "", value |-> value, log |-> <<>>]
    ELSE LET field == Lookup(self_fields, key).field
         IN  IF IsEmbeddedSerializer(field.cls) THEN save_embedded(field, value)
             ELSE IF is_embedded_list(field) THEN save_list(field, value)
             ELSE IF is_embedded_dict(field) THEN save_dict(field, value)
             ELSE [error |-> "", value |-> value, log |-> <<>>]

recursive_save(ser, validated, inst_opt) ==
    LET self_fields == get_fields(ser)
        data == [i \in 1..Len(validated) |->
                    save_value(self_fields, validated[i].name, validated[i].value)]
        me_data == [i \in 1..Len(validated) |-> Pair(validated[i].name, data[i].value)]
        made == IF ~Truthy(inst_opt) THEN Construct(ser.Meta.model, me_data)
                ELSE SetAttrs(inst_opt[1], me_data)
        events == IF ~Truthy(inst_opt) THEN << Event("construct", made, me_data) >>
                  ELSE [i \in 1..Len(me_data) |-> Event("setattr", made, << me_data[i] >>)]
    IN  IF FirstError(data) # ""
        THEN [error |-> FirstError(data), instance |-> <<>>, log |-> LogOf(data)]
        ELSE IF _saving_instances(ser.cls) /\ ~validate(made)
        THEN [error |-> "ValidationError", instance |-> <<>>,
              log |-> LogOf(data) \o events]
        ELSE [error |-> "", instance |-> << made >>,
              log |-> LogOf(data) \o events
                      \o (IF _saving_instances(ser.cls)
                          THEN << Event("save", made, <<>>) >> ELSE <<>>)]

BaseSerializers ==
    {"DocumentSerializer", "EmbeddedDocumentSerializer", "DynamicDocumentSerializer",
     "ListSerializer"}

\* mutant: the first assertion as rest_framework has it, with no exemption
\* for EmbeddedDocumentSerializer
raise_errors_on_nested_writes_no_exemption(ser, validated) ==
    LET self_fields == get_fields(ser)
    IN  \/ \E i \in 1..Len(self_fields) :
              /\ self_fields[i].field.cls \in BaseSerializers
              /\ self_fields[i].name \in Keys(validated)
        \/ \E i \in 1..Len(self_fields) :
              /\ Len(source(ser, self_fields[i])) > 1
              /\ self_fields[i].name \in Keys(validated)
              /\ \/ IsList(Lookup(validated, self_fields[i].name).value)
                 \/ IsMapping(Lookup(validated, self_fields[i].name).value)

\* the two assertions of raise_errors_on_nested_writes: TRUE when one fails
raise_errors_on_nested_writes(ser, validated) ==
    LET self_fields == get_fields(ser)
    IN  \/ \E i \in 1..Len(self_fields) :
              /\ self_fields[i].field.cls \in BaseSerializers
              /\ ~IsEmbeddedSerializer(self_fields[i].field.cls)
              /\ self_fields[i].name \in Keys(validated)
        \/ \E i \in 1..Len(self_fields) :
              /\ Len(source(ser, self_fields[i])) > 1
              /\ self_fields[i].name \in Keys(validated)
              /\ \/ IsList(Lookup(validated, self_fields[i].name).value)
                 \/ IsMapping(Lookup(validated, self_fields[i].name).value)

\* the message create gives the exception it raises: it names the model
\* class and the serializer class and ends with the original exception
Message(ser, exc) ==
    << [model |-> ser.Meta.model, serializer |-> ser.cls, original |-> exc] >>

\* what an exception that no handler of create or update catches carries
Uncaught(error, log) == [error |-> error, message |-> <<>>, instance |-> <<>>, log |-> log]

\* mutant: one handler for both exceptions, which raises TypeError
create_one_handler(ser, validated) ==
    IF raise_errors_on_nested_writes(ser, validated)
    THEN Uncaught("AssertionError", <<>>)
    ELSE LET saved == recursive_save(ser, validated, <<>>)
         IN  IF saved.error \in {"TypeError", "ValidationError"}
             THEN [error |-> "TypeError", message |-> Message(ser, saved.error),
                   instance |-> <<>>, log |-> saved.log]
             ELSE IF saved.error # "" THEN Uncaught(saved.error, saved.log)
             ELSE [error |-> "", message |-> <<>>,
                   instance |-> saved.instance, log |-> saved.log]

\* create: the assertions, then recursive_save; a TypeError and a mongoengine
\* ValidationError are caught and raised again, each as its own type, with a
\* message; any other exception passes
create(ser, validated) ==
    IF raise_errors_on_nested_writes(ser, validated)
    THEN Uncaught("AssertionError", <<>>)
    ELSE LET saved == recursive_save(ser, validated, <<>>)
         IN  IF saved.error = "TypeError"
             THEN [error |-> "TypeError", message |-> Message(ser, saved.error),
                   instance |-> <<>>, log |-> saved.log]
             ELSE IF saved.error = "ValidationError"
             THEN [error |-> "ValidationError", message |-> Message(ser, saved.error),
                   instance |-> <<>>, log |-> saved.log]
             ELSE IF saved.error # "" THEN Uncaught(saved.error, saved.log)
             ELSE [error |-> "", message |-> <<>>,
                   instance |-> saved.instance, log |-> saved.log]

\* update: the assertions, then recursive_save on the instance; no handler
update(ser, inst, validated) ==
    IF raise_errors_on_nested_writes(ser, validated)
    THEN Uncaught("AssertionError", <<>>)
    ELSE LET saved == recursive_save(ser, validated, << inst >>)
         IN  IF saved.error # "" THEN Uncaught(saved.error, saved.log)
             ELSE [error |-> "", message |-> <<>>,
                   instance |-> saved.instance, log |-> saved.log]

(***************************************************************************)
(* The write path of one top-level serializer: is_valid runs               *)
(* to_internal_value on the data the serializer was constructed with, and  *)
(* save calls create when the serializer has no instance, update when it   *)
(* has one.                                                                *)
(***************************************************************************)
\* deepest nesting of embedded documents in the data
MaxNest == 2
\* longest list of embedded documents in the data
MaxItems == 2

FlatDoc(s) == << Pair(<<"name">>, Raw(s)) >>

\* raw embedded documents nested at most n levels below the first
RECURSIVE RawDocs(_)
RawDocs(n) ==
    IF n = 0 THEN {FlatDoc("x")}
    ELSE {FlatDoc("x")}
         \cup {FlatDoc("y") \o << Pair(<<"emb">>, Mapping(d)) >> : d \in RawDocs(n - 1)}

ItemValues ==
    << Mapping(FlatDoc("x")),
       Mapping(FlatDoc("y") \o << Pair(<<"emb">>, Mapping(FlatDoc("x"))) >>) >>

\* lists of at most MaxItems items that take the two item values in turn
ItemLists ==
    {[i \in 1..n |-> ItemValues[((i + first) % 2) + 1]] : n \in 0..MaxItems, first \in 0..1}

Optional(set) == {<<>>} \cup {<< e >> : e \in set}

\* the data a client sends
InitialData ==
    { scalars \o emb \o items \o slots \o extras :
        scalars \in { <<>>,
                      << Pair(<<"name">>, Raw("n")),
                         Pair(<<"tags">>, List(<< Raw("t"), Raw("u") >>)) >> },
        emb \in Optional({Pair(<<"emb">>, Mapping(d)) : d \in RawDocs(MaxNest)}),
        items \in Optional({Pair(<<"items">>, List(l)) : l \in ItemLists}),
        slots \in Optional({Pair(<<"slots">>,
                                 Mapping(<< Pair(<<"k1">>, Mapping(FlatDoc("x"))),
                                            Pair(<<"k2">>, Mapping(FlatDoc("y"))) >>))}),
        extras \in Optional({Pair(<<"nick">>, Raw("k")), Pair(<<"label">>, Raw("l"))}) }

Serializer(cls, model, depth, depth_embedding) ==
    [cls |-> cls,
     Meta |-> [model |-> model, fields |-> ALL_FIELDS,
               has_depth |-> TRUE, depth |-> depth,
               has_depth_embedding |-> TRUE, depth_embedding |-> depth_embedding],
     declared |-> <<>>]

SaveSerializers ==
    { Serializer("DocumentSerializer", "A", 0, 0),
      Serializer("DocumentSerializer", "A", 0, MaxDepthEmbedding),
      Serializer("DocumentSerializer", "A", 1, 1),
      Serializer("DynamicDocumentSerializer", "A", 0, MaxDepthEmbedding),
      Serializer("EmbeddedDocumentSerializer", "E", 0, 1),
      Serializer("EmbeddedDocumentSerializer", FieldlessModel, 0, 0) }

Existing(model, data) == [model |-> model, origin |-> "given", data |-> data]

\* the instances a serializer of the model may be constructed with
ExistingInstances(model) ==
    IF model = FieldlessModel
    THEN { Existing(model, [k \in {} |-> None]),
           Existing(model, [k \in {<<"seen">>} |-> Raw("old")]) }
    ELSE { Existing(model, [k \in DeclaredAttrs(model) |->
                               IF k = <<"name">> THEN Str("old")
                               ELSE IF k = <<"tags">> THEN List(<< Str("old") >>)
                               ELSE DefaultValue(model, k)]) }

InitSave ==
    /\ refTo \in {g \in RefGraphs : g["A"] = "A"}
    /\ embTo \in {g \in EmbGraphs : g["A"] = "E" /\ g["E"] = "E"}
    /\ index_specs = <<>>
    /\ model_defaults = NoDefaults
    /\ meta_extra_kwargs = EmptyDict
    /\ root \in SaveSerializers
    /\ pending = {}
    /\ cur = << [ser |-> root, level |-> 0, path |-> "root"] >>
    /\ fields = get_fields(root)
    /\ uniqueness = NoUniqueness
    /\ validators = NotCalled
    /\ initial_data \in InitialData
    /\ instance \in Optional(ExistingInstances(root.Meta.model))
    /\ validated_data = NotValidated
    /\ nested = <<>>
    /\ save_kwargs = <<>>
    /\ result = NoResult
    /\ collection = {}

\* is_valid: run_validation(self.initial_data) calls to_internal_value
IsValid ==
    /\ validated_data.status = "none"
    /\ \E ret \in {IF IsDynamicSerializer(root.cls)
                   THEN dynamic_to_internal_value(root, initial_data, initial_data)
                   ELSE to_internal_value(root, initial_data)} :
          /\ validated_data' = [status |-> IF ret.error = "" THEN "ok" ELSE ret.error,
                                value |-> ret.value]
          /\ nested' = ret.nested
    /\ UNCHANGED <<treeVars, initial_data, instance, save_kwargs, result, collection>>

Saved(log) == {log[i].instance : i \in {j \in 1..Len(log) : log[j].op = "save"}}

\* the validated_data save() calls create or update with: self.validated_data
\* and, over it, the keyword arguments of save()
SaveData == OrderedUpdate(validated_data.value, save_kwargs)

Create ==
    /\ validated_data.status = "ok"
    /\ instance = <<>>
    /\ result.op = "none"
    /\ \E made \in {create(root, SaveData)} :
          /\ result' = [op |-> "create", error |-> made.error,
                        message |-> made.message, instance |-> made.instance, log |-> made.log]
          /\ collection' = collection \cup Saved(made.log)
    /\ UNCHANGED <<treeVars, initial_data, instance, validated_data, nested, save_kwargs>>

Update ==
    /\ validated_data.status = "ok"
    /\ instance # <<>>
    /\ result.op = "none"
    /\ \E made \in {update(root, instance[1], SaveData)} :
          /\ result' = [op |-> "update", error |-> made.error,
                        message |-> made.message, instance |-> made.instance, log |-> made.log]
          /\ collection' = collection \cup Saved(made.log)
    /\ UNCHANGED <<treeVars, initial_data, instance, validated_data, nested, save_kwargs>>

NextSave == IsValid \/ Create \/ Update

SpecSave == InitSave /\ [][NextSave]_vars

(***************************************************************************)
(* The write path when save() is given keyword arguments and the           *)
(* serializer's Meta.extra_kwargs give fields a dotted source: the keys    *)
(* of the validated_data that reaches create and update are then not only  *)
(* those to_internal_value lets through.                                   *)
(***************************************************************************)
WriteSerializers ==
    { Serializer("DocumentSerializer", "A", 0, MaxDepthEmbedding),
      Serializer("DocumentSerializer", "A", 1, 1),
      Serializer("EmbeddedDocumentSerializer", "E", 0, 1) }

\* Meta.extra_kwargs: none, or a dotted source for one field
SourceOptions ==
    { EmptyDict,
      [fn \in {<<"tags">>} |-> [k \in {"source"} |-> <<"extra", "tags">>]],
      [fn \in {<<"emb">>} |-> [k \in {"source"} |-> <<"extra", "emb">>]] }

WriteData ==
    { <<>>,
      << Pair(<<"name">>, Raw("n")), Pair(<<"tags">>, List(<< Raw("t") >>)) >>,
      << Pair(<<"name">>, Raw("n")), Pair(<<"emb">>, Mapping(FlatDoc("x"))) >>,
      << Pair(<<"emb">>, Mapping(FlatDoc("y") \o << Pair(<<"emb">>, Mapping(FlatDoc("x"))) >>)),
         Pair(<<"items">>, List(<< Mapping(FlatDoc("x")) >>)) >> }

\* the keyword arguments of save(), as a view passes them: values a
\* validation would give and values it would not
SaveKwargs ==
    { <<>>,
      << Pair(<<"items">>, None) >>,
      << Pair(<<"name">>, Number(7)) >>,
      << Pair(<<"emb">>, Mapping(<< Pair(<<"name">>, Number(7)) >>)) >>,
      << Pair(<<"emb">>, Mapping(<< Pair(<<"name">>, Str("x")),
                                    Pair(<<"items">>, None) >>)) >>,
      << Pair(<<"ref">>, Ref("r")) >>,
      << Pair(<<"tags">>, List(<< Str("k") >>)) >>,
      << Pair(<<"tags">>, None) >>,
      << Pair(<<"emb">>, Mapping(<< Pair(<<"name">>, Str("x")) >>)) >>,
      << Pair(<<"ref">>, Ref("r")),
         Pair(<<"emb">>, Mapping(<< Pair(<<"name">>, Str("x")) >>)) >> }

InitWrite ==
    /\ refTo \in {g \in RefGraphs : g["A"] = "A"}
    /\ embTo \in {g \in EmbGraphs : g["A"] = "E" /\ g["E"] = "E"}
    /\ index_specs = <<>>
    /\ model_defaults = NoDefaults
    /\ meta_extra_kwargs \in SourceOptions
    /\ root \in WriteSerializers
    /\ pending = {}
    /\ cur = << [ser |-> root, level |-> 0, path |-> "root"] >>
    /\ fields = get_fields(root)
    /\ uniqueness = NoUniqueness
    /\ validators = NotCalled
    /\ initial_data \in WriteData
    /\ instance \in Optional(ExistingInstances(root.Meta.model))
    /\ validated_data = NotValidated
    /\ nested = <<>>
    /\ save_kwargs \in SaveKwargs
    /\ result = NoResult
    /\ collection = {}

SpecWrite == InitWrite /\ [][NextSave]_vars

(***************************************************************************)
(* Statements about the write path.                                        *)
(***************************************************************************)
\* create or update ran to its end
Wrote == result.op \in {"create", "update"} /\ result.error = ""

TopInstance == result.instance[1]

Log == result.log

SaveEvents == {i \in 1..Len(Log) : Log[i].op = "save"}

\* the documents found in a value, at any nesting
RECURSIVE DocsIn(_)
DocsIn(v) ==
    IF IsDoc(v)
    THEN {v.doc} \cup UNION {DocsIn(v.doc.data[k]) : k \in DOMAIN v.doc.data}
    ELSE IF IsList(v) THEN UNION {DocsIn(v.list[i]) : i \in 1..Len(v.list)}
    ELSE IF IsMapping(v) THEN UNION {DocsIn(v.map[i].value) : i \in 1..Len(v.map)}
    ELSE {}

\* the embedded documents below the top-level instance
EmbeddedBelowTop == DocsIn(Doc(TopInstance)) \ {TopInstance}

EmbeddedModels == EmbModels \cup {FieldlessModel}

\* C4: a create or update that completes on a DocumentSerializer calls save
\* exactly once, on the top-level instance, as its last step, after every
\* nested embedded instance was constructed; save is never called on an
\* embedded document, whether it came from a single value, a list or a dict.
C4_SaveOnce ==
    Wrote =>
        /\ \A i \in SaveEvents : Log[i].instance.model \notin EmbeddedModels
        /\ IF IsEmbeddedSerializer(root.cls)
           THEN SaveEvents = {} /\ collection = {}
           ELSE /\ SaveEvents = {Len(Log)}
                /\ Log[Len(Log)].instance = TopInstance
                /\ collection = {TopInstance}
                /\ \A d \in EmbeddedBelowTop :
                       \E i \in 1..(Len(Log) - 1) :
                           Log[i].op = "construct" /\ Log[i].instance = d

C4_Witness ==
    /\ Wrote
    /\ root.cls = "DocumentSerializer"
    /\ {<<"emb">>, <<"items">>, <<"slots">>} \subseteq Keys(validated_data.value)
    /\ Cardinality(EmbeddedBelowTop) >= 3
    /\ Len(Log) >= 6
    /\ collection = {TopInstance}

\* what recursive_save did to the top-level instance: the keyword arguments
\* of its construction, or the attributes assigned to it, in order
TopKwargs ==
    LET top == {i \in 1..Len(Log) :
                   Log[i].op \in {"construct", "setattr"} /\ Log[i].instance = TopInstance}
    IN  Concat([i \in 1..Len(AtPositions(Log, top)) |-> AtPositions(Log, top)[i].kwargs])

\* the serializer field of a name: <<>> or <<the field>>
FieldOf(ser, name) ==
    LET self_fields == get_fields(ser)
    IN  IF name \in Keys(self_fields) THEN << Lookup(self_fields, name).field >> ELSE <<>>

HasEmbeddedChild(field) == field.child # <<>> /\ IsEmbeddedSerializer(field.child[1].cls)

RECURSIVE IsConvertedValue(_, _, _)
RECURSIVE IsConvertedDoc(_, _, _)

\* me_value is what the model is to get for a validated value
\* under the field (<<>>: no serializer field of that name)
IsConvertedValue(field_opt, value, me_value) ==
    IF field_opt = <<>> THEN me_value = value
    ELSE IF IsEmbeddedSerializer(field_opt[1].cls)
    THEN IsConvertedDoc(NestedSerializer(field_opt[1]), value, me_value)
    ELSE IF field_opt[1].cls \in {"ListField", "ListSerializer"} /\ HasEmbeddedChild(field_opt[1])
    THEN /\ IsList(me_value)
         /\ Len(me_value.list) = Len(value.list)
         /\ \A i \in 1..Len(value.list) :
               IsConvertedDoc(NestedSerializer(field_opt[1].child[1]),
                              value.list[i], me_value.list[i])
    ELSE IF field_opt[1].cls = "DictField" /\ HasEmbeddedChild(field_opt[1])
    THEN /\ IsMapping(me_value)
         /\ KeyList(me_value.map) = KeyList(value.map)
         /\ \A i \in 1..Len(value.map) :
               IsConvertedDoc(NestedSerializer(field_opt[1].child[1]),
                              value.map[i].value, me_value.map[i].value)
    ELSE me_value = value

\* me_value is an embedded instance of the serializer's model, made of
\* exactly the keys of the validated mapping, each converted in its turn
IsConvertedDoc(ser, value, me_value) ==
    /\ IsDoc(me_value)
    /\ me_value.doc.model = ser.Meta.model
    /\ me_value.doc.origin = "constructed"
    /\ DOMAIN me_value.doc.data = DeclaredAttrs(ser.Meta.model) \cup Keys(value.map)
    /\ \A k \in DOMAIN me_value.doc.data \ Keys(value.map) :
          me_value.doc.data[k] = DefaultValue(ser.Meta.model, k)
    /\ \A i \in 1..Len(value.map) :
          IsConvertedValue(FieldOf(ser, value.map[i].name), value.map[i].value,
                           me_value.doc.data[value.map[i].name])

\* C5: recursive_save hands the model exactly the keys of validated_data; a
\* value under an EmbeddedDocumentSerializer field becomes an embedded
\* instance of that serializer's model, a list of them a list of instances of
\* the same length and order, a dict of them a dict with the same keys, every
\* other value is passed unchanged, and so at every nesting level.
C5_ConvertsEmbedded ==
    Wrote =>
        /\ KeyList(TopKwargs) = KeyList(validated_data.value)
        /\ \A i \in 1..Len(TopKwargs) :
              IsConvertedValue(FieldOf(root, TopKwargs[i].name),
                               validated_data.value[i].value, TopKwargs[i].value)

C5_Witness ==
    /\ Wrote
    /\ MetaDepthEmbedding(root.Meta) >= 2
    /\ {<<"name">>, <<"tags">>, <<"emb">>, <<"items">>, <<"slots">>}
           \subseteq Keys(validated_data.value)
    /\ Len(Lookup(validated_data.value, <<"items">>).value.list) >= 2
    /\ <<"emb">> \in Keys(Lookup(validated_data.value, <<"emb">>).value.map)
    /\ IsDoc(TopInstance.data[<<"emb">>])
    /\ IsDoc(TopInstance.data[<<"emb">>].doc.data[<<"emb">>])

\* C6: update mutates and returns the instance it was given and constructs
\* no new top-level document: exactly the attributes validated_data names are
\* assigned, the others keep their values; create constructs a new instance.
\* This holds for every existing instance passed to update.
C6_UpdateInPlace ==
    /\ (result.op = "update" /\ result.error = "") =>
          /\ TopInstance.origin = "given"
          /\ \A i \in 1..Len(Log) :
                Log[i].op = "construct" => Log[i].instance \in EmbeddedBelowTop
          /\ DOMAIN TopInstance.data
                = DOMAIN instance[1].data \cup Keys(validated_data.value)
          /\ \A k \in DOMAIN instance[1].data \ Keys(validated_data.value) :
                TopInstance.data[k] = instance[1].data[k]
          /\ KeyList(TopKwargs) = KeyList(validated_data.value)
    /\ (result.op = "create" /\ result.error = "") =>
          /\ TopInstance.origin = "constructed"
          /\ \E i \in 1..Len(Log) :
                Log[i].op = "construct" /\ Log[i].instance = TopInstance

\* the same for the instances that are true in a condition
UpdateInPlaceWhenTruthy == Truthy(instance) => C6_UpdateInPlace

\* the positions of initial_data whose key is no serializer field
Undeclared == {i \in 1..Len(initial_data) : initial_data[i].name \notin Keys(fields)}

\* C9: a DynamicDocumentSerializer carries every key of the input that is no
\* declared serializer field through unvalidated: to_internal_value returns
\* the validated declared fields plus each such key with its raw value, and
\* recursive_save passes each such key to the instance unchanged.
C9_DynamicData ==
    IsDynamicSerializer(root.cls) =>
        /\ validated_data.status = "ok" =>
              /\ \A i \in Undeclared :
                    /\ initial_data[i].name \in Keys(validated_data.value)
                    /\ Lookup(validated_data.value, initial_data[i].name).value
                           = initial_data[i].value
              /\ \A i \in 1..Len(validated_data.value) :
                    \/ validated_data.value[i].name \in Keys(initial_data) \ Keys(fields)
                    \/ /\ validated_data.value[i].name \in Keys(fields)
                       /\ ~IsRaw(validated_data.value[i].value)
              /\ \A i \in 1..Len(initial_data) :
                    (initial_data[i].name \in Keys(fields) /\ IsRaw(initial_data[i].value))
                        => Lookup(validated_data.value, initial_data[i].name).value
                               = Str(initial_data[i].value.raw)
        /\ Wrote =>
              \A i \in Undeclared :
                  /\ initial_data[i].name \in DOMAIN TopInstance.data
                  /\ TopInstance.data[initial_data[i].name] = initial_data[i].value
                  /\ Lookup(TopKwargs, initial_data[i].name).value = initial_data[i].value

C9_Witness ==
    /\ IsDynamicSerializer(root.cls)
    /\ Wrote
    /\ Undeclared # {}
    /\ <<"name">> \in Keys(initial_data)
    /\ <<"emb">> \in Keys(initial_data)
    /\ TopInstance.data[<<"nick">>] = Raw("k")
    /\ TopInstance.data[<<"name">>] = Str("n")

\* the field of the top-level serializer a key of the validated data names
WriteField(key) == Lookup(fields, key).field

WriteKeys == Keys(SaveData) \cap Keys(fields)

\* the keys whose field is a nested serializer other than an
\* EmbeddedDocumentSerializer
NestedSerializerKeys ==
    {k \in WriteKeys : WriteField(k).cls \in {"DocumentSerializer", "ListSerializer"}}

EmbeddedKeys == {k \in WriteKeys : WriteField(k).cls = "EmbeddedDocumentSerializer"}

HasDottedSource(k) ==
    /\ k \in DOMAIN meta_extra_kwargs
    /\ "source" \in DOMAIN meta_extra_kwargs[k]
    /\ Len(meta_extra_kwargs[k]["source"]) > 1

\* the keys whose field has a dotted source and whose value is a list or dict
DottedKeys ==
    {k \in WriteKeys : /\ HasDottedSource(k)
                        /\ \/ IsList(Lookup(SaveData, k).value)
                           \/ IsMapping(Lookup(SaveData, k).value)}

Called == result.op \in {"create", "update"}

\* an assertion error, and no instance constructed, mutated or saved
Rejected ==
    /\ result.error = "AssertionError"
    /\ result.log = <<>>
    /\ result.instance = <<>>
    /\ collection = {}

CreateFailed == result.op = "create" /\ result.error \in {"TypeError", "ValidationError"}

\* C12: when recursive_save fails inside create with a TypeError or a
\* mongoengine ValidationError, at any nesting level, create raises an
\* exception of the type of the original one, whose message names the model
\* and the serializer; it returns no instance, no save completed and no
\* document is in the collection.
C12_CreateFailure ==
    /\ Called /\ result.message # <<>> => CreateFailed
    /\ CreateFailed =>
           /\ result.message # <<>>
           /\ result.message[1].original = result.error
           /\ result.message[1].model = root.Meta.model
           /\ result.message[1].serializer = root.cls
           /\ result.instance = <<>>
           /\ SaveEvents = {}
           /\ collection = {}

\* the keys of the nested embedded documents create constructed
ConstructedBelow ==
    {i \in 1..Len(Log) : Log[i].op = "construct" /\ Log[i].instance.model \in EmbeddedModels}

\* a DocumentSerializer's create failed with a ValidationError at the save of
\* the top-level instance, after the walk constructed an embedded document
\* and the top-level one
C12_Witness ==
    /\ CreateFailed
    /\ root.cls = "DocumentSerializer"
    /\ result.error = "ValidationError"
    /\ ConstructedBelow # {}
    /\ Log[Len(Log)].op = "construct"
    /\ Log[Len(Log)].instance.model = root.Meta.model

====
